---- MODULE Spec2Model ----
(***************************************************************************)
(* A model of graphics.rs of potatOS: the pixel write paths of a linear    *)
(* frame buffer, the rectangle primitives, the one-time global writer and  *)
(* the Shinonome bitmap font renderer.                                     *)
(***************************************************************************)
EXTENDS Integers, Sequences, FiniteSets, TLC

VARIABLES
    fb,         \* the FrameBuffer descriptor handed over by the boot code
    bufD,       \* the frame buffer memory, drawn through the FrameBuffer itself
    bufW,       \* an equal memory, drawn through the per-format writer
    preD,       \* bufD before the last operation
    preW,       \* bufW before the last operation
    op,         \* the last operation and its arguments
    calls,      \* the draw_pixel calls the last operation issued, in order
    nOps,       \* the number of operations applied so far
    font,       \* ShinonomeFont.font: the embedded glyph table
    ascii,      \* the write_ascii calls the last write_string issued, in order
    reads,      \* the glyph table indices the last operation read
    aborted,    \* whether the last operation panicked on a slice index
    WRITER,     \* the global handle: uninitialized, or a reference to a static
    RGB_WRITER, \* the static storage of the RGB writer
    BGR_WRITER, \* the static storage of the BGR writer
    lock,       \* the holders of WRITER's spin lock (empty when it is free)
    pc,         \* where each execution context stands
    arg,        \* the descriptor each init_global_writer call was given
    obs,        \* what each reader last saw behind the handle
    returned,   \* the descriptors of the init_global_writer calls that returned
    last,       \* the descriptor of the call that returned last
    nCalls      \* the number of init_global_writer calls made so far

drawVars == <<fb, bufD, bufW, preD, preW, op, calls, nOps>>

fontVars == <<font, ascii, reads, aborted>>

globalVars ==
    <<WRITER, RGB_WRITER, BGR_WRITER, lock, pc, arg, obs, returned, last, nCalls>>

vars == <<drawVars, fontVars, globalVars>>

----------------------------------------------------------------------------
(* Bounds of the model. *)

Width == 3          \* horizontal_resolution of the modelled frame buffer
Height == 2         \* vertical_resolution of the modelled frame buffer
Pad == 1            \* padding pixels per scan line (stride = width + pad)
MaxOps == 1         \* drawing calls per behaviour
NumGlyphs == 2      \* glyphs in the largest modelled glyph table
MaxStrLen == 2      \* characters in the longest modelled string
MaxShift == 1       \* largest x and y a glyph cell is placed at
NumCallers == 2     \* execution contexts that call init_global_writer
NumReaders == 1     \* execution contexts that read the global handle
MaxCalls == 2       \* init_global_writer calls per behaviour
NumAddrs == 2       \* distinct frame buffer addresses among the descriptors

----------------------------------------------------------------------------
(* Value types. *)

RGB == "PixelRGBResv8BitPerColor"
BGR == "PixelBGRResv8BitPerColor"
PixelFormat == {RGB, BGR}

PixelColor_new(r, g, b) == [red |-> r, green |-> g, blue |-> b]

RED == PixelColor_new(255, 0, 0)

\* The colours the operations draw with: a named constant and one whose
\* three channels differ, so that channel order shows.
Colors == {RED, PixelColor_new(1, 2, 3)}

Vector2D_new(x, y) == [x |-> x, y |-> y]

\* Bytes of one pixel slot.
BytesPerPixel == 4

FrameBuffer(addr, stride, h, v, format) ==
    [frame_buffer |-> addr, pixel_per_scan_line |-> stride,
     horizontal_resolution |-> h, vertical_resolution |-> v,
     pixel_format |-> format]

\* The memory region behind a descriptor, as offsets from its base address.
MemOf(f) == 0 .. (BytesPerPixel * f.pixel_per_scan_line * f.vertical_resolution - 1)

\* What the region holds before anything is drawn: bytes no colour uses.
InitMem(f) == [a \in MemOf(f) |-> 100 + (a % 7)]

----------------------------------------------------------------------------
(* The three implementations of PixelWriter::draw_pixel.  mem is the memory  *)
(* region, the result is the region after the call.                          *)

\* for (i, &item) in color_data.iter().enumerate() { pixel.add(i).write_volatile(item) }
RECURSIVE write_volatile_each(_, _, _, _)
write_volatile_each(mem, pixel, color_data, i) ==
    IF i >= Len(color_data) THEN mem
    ELSE write_volatile_each([mem EXCEPT ![pixel + i] = color_data[i + 1]],
                             pixel, color_data, i + 1)

\* As FrameBuffer_draw_pixel, with the row length taken from the visible width.
FrameBuffer_draw_pixel_by_width(self, mem, x, y, color) ==
    LET pixel_position == self.horizontal_resolution * y + x
        color_data == IF self.pixel_format = RGB
                      THEN <<color.red, color.green, color.blue>>
                      ELSE <<color.blue, color.green, color.red>>
        pixel == BytesPerPixel * pixel_position
    IN  write_volatile_each(mem, pixel, color_data, 0)

FrameBuffer_draw_pixel(self, mem, x, y, color) ==
    LET pixel_position == self.pixel_per_scan_line * y + x
        color_data == IF self.pixel_format = RGB
                      THEN <<color.red, color.green, color.blue>>
                      ELSE <<color.blue, color.green, color.red>>
        pixel == BytesPerPixel * pixel_position
    IN  write_volatile_each(mem, pixel, color_data, 0)

RGBResv8BitPerColorPixelWriter_new(frame_buffer) ==
    [kind |-> "RGBWriter", frame_buffer |-> frame_buffer]

BGRResv8BitPerColorPixelWriter_new(frame_buffer) ==
    [kind |-> "BGRWriter", frame_buffer |-> frame_buffer]

RGBWriter_draw_pixel(self, mem, x, y, color) ==
    LET pixel_position == self.frame_buffer.pixel_per_scan_line * y + x
        pixel == BytesPerPixel * pixel_position
        color_data == <<color.red, color.green, color.blue>>
    IN  write_volatile_each(mem, pixel, color_data, 0)

\* As BGRWriter_draw_pixel, with the colour data of the RGB writer.
BGRWriter_draw_pixel_rgb_order(self, mem, x, y, color) ==
    LET pixel_position == self.frame_buffer.pixel_per_scan_line * y + x
        pixel == BytesPerPixel * pixel_position
        color_data == <<color.red, color.green, color.blue>>
    IN  write_volatile_each(mem, pixel, color_data, 0)

BGRWriter_draw_pixel(self, mem, x, y, color) ==
    LET pixel_position == self.frame_buffer.pixel_per_scan_line * y + x
        pixel == BytesPerPixel * pixel_position
        color_data == <<color.blue, color.green, color.red>>
    IN  write_volatile_each(mem, pixel, color_data, 0)

\* A drawing capability (&dyn PixelWriter): the descriptor itself or a writer.
AsWriter(f) == [kind |-> "FrameBuffer", frame_buffer |-> f]

\* Dynamic dispatch of draw_pixel on the concrete type behind the reference.
draw_pixel(self, mem, x, y, color) ==
    CASE self.kind = "FrameBuffer" ->
            FrameBuffer_draw_pixel(self.frame_buffer, mem, x, y, color)
      [] self.kind = "RGBWriter" -> RGBWriter_draw_pixel(self, mem, x, y, color)
      [] self.kind = "BGRWriter" -> BGRWriter_draw_pixel(self, mem, x, y, color)

\* One draw_pixel call on a drawing state: the memory and the log of calls.
Draw(self, st, x, y, color) ==
    [st EXCEPT !.mem = draw_pixel(self, st.mem, x, y, color),
               !.calls = Append(st.calls, [x |-> x, y |-> y, color |-> color])]

----------------------------------------------------------------------------
(* PixelWriter::fill_rect and PixelWriter::draw_rect, loop by loop. *)

\* As fill_rect_dx, with the range 0..=size.x.
RECURSIVE fill_rect_dx_inclusive(_, _, _, _, _, _, _)
fill_rect_dx_inclusive(self, st, pos, size, color, dy, dx) ==
    IF dx > size.x THEN st
    ELSE fill_rect_dx_inclusive(self, Draw(self, st, pos.x + dx, pos.y + dy, color),
                                pos, size, color, dy, dx + 1)

RECURSIVE fill_rect_dx(_, _, _, _, _, _, _)
fill_rect_dx(self, st, pos, size, color, dy, dx) ==
    IF dx >= size.x THEN st
    ELSE fill_rect_dx(self, Draw(self, st, pos.x + dx, pos.y + dy, color),
                      pos, size, color, dy, dx + 1)

RECURSIVE fill_rect_dy(_, _, _, _, _, _)
fill_rect_dy(self, st, pos, size, color, dy) ==
    IF dy >= size.y THEN st
    ELSE fill_rect_dy(self, fill_rect_dx(self, st, pos, size, color, dy, 0),
                      pos, size, color, dy + 1)

fill_rect(self, st, pos, size, color) == fill_rect_dy(self, st, pos, size, color, 0)

RECURSIVE draw_rect_dx(_, _, _, _, _, _)
draw_rect_dx(self, st, pos, size, color, dx) ==
    IF dx >= size.x THEN st
    ELSE LET s1 == Draw(self, st, pos.x + dx, pos.y, color)
             s2 == Draw(self, s1, pos.x + dx, pos.y + size.y, color)
         IN  draw_rect_dx(self, s2, pos, size, color, dx + 1)

RECURSIVE draw_rect_dy(_, _, _, _, _, _)
draw_rect_dy(self, st, pos, size, color, dy) ==
    IF dy >= size.y THEN st
    ELSE LET s1 == Draw(self, st, pos.x, pos.y + dy, color)
             s2 == Draw(self, s1, pos.x + size.x, pos.y + dy, color)
         IN  draw_rect_dy(self, s2, pos, size, color, dy + 1)

draw_rect(self, st, pos, size, color) ==
    draw_rect_dy(self, draw_rect_dx(self, st, pos, size, color, 0),
                 pos, size, color, 0)

----------------------------------------------------------------------------
(* The drawing specification: drawing calls on a frame buffer of either      *)
(* format, each issued through both write paths.                             *)

\* The monomorphic writer init_global_writer would build for a descriptor.
WriterOf(f) ==
    IF f.pixel_format = RGB THEN RGBResv8BitPerColorPixelWriter_new(f)
    ELSE BGRResv8BitPerColorPixelWriter_new(f)

NoOp == [name |-> "none"]

\* MaybeUninit::uninit(): the handle's cell and a writer's static before any write.
HandleUninit == "uninit"
StorageUninit == [kind |-> "uninit"]

\* No descriptor yet, and a reader that has not looked yet.
NoDesc == [name |-> "none"]
NoObs == [began |-> {}, done |-> FALSE]

Callers == 1 .. NumCallers
Readers == (NumCallers + 1) .. (NumCallers + NumReaders)

\* No font in use.
FontIdle ==
    /\ font = <<>>
    /\ ascii = <<>>
    /\ reads = {}
    /\ aborted = FALSE

\* The global handle as the program starts: nothing initialized, nobody running.
GlobalIdle ==
    /\ WRITER = HandleUninit
    /\ RGB_WRITER = StorageUninit
    /\ BGR_WRITER = StorageUninit
    /\ lock = {}
    /\ pc = [p \in Callers \cup Readers |-> "idle"]
    /\ arg = [p \in Callers |-> NoDesc]
    /\ obs = [r \in Readers |-> NoObs]
    /\ returned = {}
    /\ last = NoDesc
    /\ nCalls = 0

Init ==
    /\ \E format \in PixelFormat :
          fb = FrameBuffer(1, Width + Pad, Width, Height, format)
    /\ bufD = InitMem(fb)
    /\ bufW = InitMem(fb)
    /\ preD = bufD
    /\ preW = bufW
    /\ op = NoOp
    /\ calls = <<>>
    /\ nOps = 0
    /\ FontIdle
    /\ GlobalIdle

\* The caller's contract: coordinates within the reported resolution.
InResolution(x, y) ==
    /\ x < fb.horizontal_resolution
    /\ y < fb.vertical_resolution

Apply(o, stD, stW) ==
    /\ nOps < MaxOps
    /\ nOps' = nOps + 1
    /\ op' = o
    /\ preD' = bufD
    /\ preW' = bufW
    /\ bufD' = stD.mem
    /\ bufW' = stW.mem
    /\ calls' = stD.calls
    /\ UNCHANGED fb
    /\ UNCHANGED fontVars
    /\ UNCHANGED globalVars

\* The drawing state an operation starts from.
Start(mem) ==
    [mem |-> mem, calls |-> <<>>, ascii |-> <<>>, reads |-> {}, aborted |-> FALSE]

DrawPixel ==
    \E x \in 0 .. Width - 1, y \in 0 .. Height - 1, color \in Colors :
        /\ InResolution(x, y)
        /\ Apply([name |-> "draw_pixel", x |-> x, y |-> y, color |-> color],
                 Draw(AsWriter(fb), Start(bufD), x, y, color),
                 Draw(WriterOf(fb), Start(bufW), x, y, color))

FillRect ==
    \E px \in 0 .. Width - 1, py \in 0 .. Height - 1,
       sx \in 0 .. Width, sy \in 0 .. Height, color \in Colors :
        /\ px + sx <= fb.horizontal_resolution
        /\ py + sy <= fb.vertical_resolution
        /\ LET pos == Vector2D_new(px, py)
               size == Vector2D_new(sx, sy)
           IN  Apply([name |-> "fill_rect", pos |-> pos, size |-> size,
                      color |-> color],
                     fill_rect(AsWriter(fb), Start(bufD), pos, size, color),
                     fill_rect(WriterOf(fb), Start(bufW), pos, size, color))

DrawRect ==
    \E px \in 0 .. Width - 1, py \in 0 .. Height - 1,
       sx \in 0 .. Width - 1, sy \in 0 .. Height - 1, color \in Colors :
        /\ InResolution(px + sx, py + sy)
        /\ LET pos == Vector2D_new(px, py)
               size == Vector2D_new(sx, sy)
           IN  Apply([name |-> "draw_rect", pos |-> pos, size |-> size,
                      color |-> color],
                     draw_rect(AsWriter(fb), Start(bufD), pos, size, color),
                     draw_rect(WriterOf(fb), Start(bufW), pos, size, color))

Next == DrawPixel \/ FillRect \/ DrawRect

Spec == Init /\ [][Next]_vars

----------------------------------------------------------------------------
(* The Shinonome font: the glyph table, write_ascii and write_string. *)

\* Rows of a glyph (for dy in 0..16) and columns of a row (for dx in 0..8).
GlyphH == 16
GlyphW == 8
\* Bytes of the table per code point (16*c) and pixels per character (i*8).
GlyphBytes == 16
Advance == 8

\* A glyph table of n glyphs, 16 bytes each.  The embedded asset is not part
\* of the sources: its bytes are an input, here rows of varied bit patterns.
FontTable(n) == [i \in 1 .. GlyphBytes * n |-> ((i - 1) * 37 + 129) % 256]

\* u8 << dx: the bits shifted past bit 7 are dropped.
Shl8(b, dx) == (b * (2 ^ dx)) % 256

\* v & 0x80 for a byte v.
And0x80(v) == ((v \div 128) % 2) * 128

\* 16*c as usize.  usize is at least 32 bits wide on every target of the
\* kernel; 16*c modulo 2^32 is 16*(c modulo 2^28).
\* As glyph_index, on a 16-bit index.
glyph_index_u16(c) == (GlyphBytes * c) % 65536

glyph_index(c) == GlyphBytes * (c % (2 ^ 28))

\* As write_ascii_dx, with the commented-out background branch alive.
RECURSIVE write_ascii_dx_bg(_, _, _, _, _, _, _, _, _, _)
write_ascii_dx_bg(table, writer, st, x, y, index, fg, bg, dy, dx) ==
    IF dx >= GlyphW THEN st
    ELSE IF index + dy >= Len(table) THEN [st EXCEPT !.aborted = TRUE]
    ELSE LET row == table[index + dy + 1]
             s1 == [st EXCEPT !.reads = @ \cup {index + dy}]
             s2 == IF And0x80(Shl8(row, dx)) > 0
                   THEN Draw(writer, s1, x + dx, y + dy, fg)
                   ELSE Draw(writer, s1, x + dx, y + dy, bg)
         IN  write_ascii_dx_bg(table, writer, s2, x, y, index, fg, bg, dy, dx + 1)

RECURSIVE write_ascii_dx(_, _, _, _, _, _, _, _, _, _)
write_ascii_dx(table, writer, st, x, y, index, fg, bg, dy, dx) ==
    IF dx >= GlyphW THEN st
    ELSE IF index + dy >= Len(table) THEN [st EXCEPT !.aborted = TRUE]
    ELSE LET row == table[index + dy + 1]
             s1 == [st EXCEPT !.reads = @ \cup {index + dy}]
             s2 == IF And0x80(Shl8(row, dx)) > 0
                   THEN Draw(writer, s1, x + dx, y + dy, fg)
                   ELSE s1
         IN  write_ascii_dx(table, writer, s2, x, y, index, fg, bg, dy, dx + 1)

RECURSIVE write_ascii_dy(_, _, _, _, _, _, _, _, _)
write_ascii_dy(table, writer, st, x, y, index, fg, bg, dy) ==
    IF dy >= GlyphH \/ st.aborted THEN st
    ELSE write_ascii_dy(table, writer,
                        write_ascii_dx(table, writer, st, x, y, index, fg, bg, dy, 0),
                        x, y, index, fg, bg, dy + 1)

\* As write_ascii, with the range test index > len.
write_ascii_gt(table, writer, st, x, y, c, fg, bg) ==
    LET index == glyph_index(c)
    IN  IF index > Len(table) THEN st
        ELSE write_ascii_dy(table, writer, st, x, y, index, fg, bg, 0)

write_ascii(table, writer, st, x, y, c, fg, bg) ==
    LET index == glyph_index(c)
    IN  IF index >= Len(table) THEN st
        ELSE write_ascii_dy(table, writer, st, x, y, index, fg, bg, 0)

\* The UTF-8 bytes of one code point: a &str holds valid UTF-8.
Utf8(c) ==
    IF c < 128 THEN <<c>>
    ELSE IF c < 2048 THEN <<192 + (c \div 64), 128 + (c % 64)>>
    ELSE IF c < 65536
         THEN <<224 + (c \div 4096), 128 + ((c \div 64) % 64), 128 + (c % 64)>>
    ELSE <<240 + (c \div 262144), 128 + ((c \div 4096) % 64),
           128 + ((c \div 64) % 64), 128 + (c % 64)>>

RECURSIVE Utf8Str(_)
Utf8Str(cs) == IF cs = <<>> THEN <<>> ELSE Utf8(Head(cs)) \o Utf8Str(Tail(cs))

\* s.chars(): the code points of a string, decoded from its bytes.
RECURSIVE Chars(_)
Chars(s) ==
    IF s = <<>> THEN <<>>
    ELSE LET b == s[1]
             w == IF b < 128 THEN 1 ELSE IF b < 224 THEN 2 ELSE IF b < 240 THEN 3 ELSE 4
             c == CASE w = 1 -> b
                    [] w = 2 -> (b % 32) * 64 + (s[2] % 64)
                    [] w = 3 -> (b % 16) * 4096 + (s[2] % 64) * 64 + (s[3] % 64)
                    [] w = 4 -> (b % 8) * 262144 + (s[2] % 64) * 4096
                                + (s[3] % 64) * 64 + (s[4] % 64)
         IN  <<c>> \o Chars(SubSeq(s, w + 1, Len(s)))

\* One write_ascii call issued by write_string: logged, then performed.
CallAscii(table, writer, st, x, y, c, fg, bg) ==
    write_ascii(table, writer,
                [st EXCEPT !.ascii = Append(@, [x |-> x, y |-> y, c |-> c])],
                x, y, c, fg, bg)

\* for (i, c) in s.chars().enumerate() { self.write_ascii(writer, i*8 + x, y, c, fg, bg) }
RECURSIVE Font_write_string_loop(_, _, _, _, _, _, _, _, _)
Font_write_string_loop(table, writer, st, x, y, cs, fg, bg, i) ==
    IF i >= Len(cs) THEN st
    ELSE Font_write_string_loop(table, writer,
             CallAscii(table, writer, st, i * Advance + x, y, cs[i + 1], fg, bg),
             x, y, cs, fg, bg, i + 1)

\* As Font_write_string, over s.char_indices(): i counts bytes.
RECURSIVE Font_write_string_char_indices_loop(_, _, _, _, _, _, _, _, _, _)
Font_write_string_char_indices_loop(table, writer, st, x, y, cs, fg, bg, k, i) ==
    IF k >= Len(cs) THEN st
    ELSE Font_write_string_char_indices_loop(table, writer,
             CallAscii(table, writer, st, i * Advance + x, y, cs[k + 1], fg, bg),
             x, y, cs, fg, bg, k + 1, i + Len(Utf8(cs[k + 1])))

Font_write_string_char_indices(table, writer, st, x, y, s, fg, bg) ==
    Font_write_string_char_indices_loop(table, writer, st, x, y, Chars(s), fg, bg, 0, 0)

\* The trait's default method, on any drawing capability.
Font_write_string(table, writer, st, x, y, s, fg, bg) ==
    Font_write_string_loop(table, writer, st, x, y, Chars(s), fg, bg, 0)

RECURSIVE ShinonomeFont_write_string_loop(_, _, _, _, _, _, _, _, _)
ShinonomeFont_write_string_loop(table, writer, st, x, y, cs, fg, bg, i) ==
    IF i >= Len(cs) THEN st
    ELSE ShinonomeFont_write_string_loop(table, writer,
             CallAscii(table, writer, st, i * Advance + x, y, cs[i + 1], fg, bg),
             x, y, cs, fg, bg, i + 1)

\* The inherent method, on a FrameBuffer.
ShinonomeFont_write_string(table, writer, st, x, y, s, fg, bg) ==
    ShinonomeFont_write_string_loop(table, writer, st, x, y, Chars(s), fg, bg, 0)

----------------------------------------------------------------------------
(* The font specification: one rendering call on a frame buffer large        *)
(* enough for the longest string, with a glyph table of 1..NumGlyphs glyphs. *)

\* Code points: every glyph of the largest table, the first one past it, and
\* characters of two, three and four UTF-8 bytes (U+00E9, U+1001, U+10FFFF).
CodePoints == (0 .. NumGlyphs) \cup {233, 4097, 1114111}

\* The characters strings are made of: a glyph, and characters of two, three
\* and four bytes.
StrChars == {1, 233, 4097, 1114111}

RECURSIVE SeqsUpTo(_, _)
SeqsUpTo(S, n) ==
    IF n = 0 THEN {<<>>}
    ELSE LET shorter == SeqsUpTo(S, n - 1)
         IN  shorter \cup {Append(q, e) : q \in shorter, e \in S}

Strings == SeqsUpTo(StrChars, MaxStrLen)

FontInit ==
    /\ \E format \in PixelFormat :
          fb = FrameBuffer(1, GlyphW * MaxStrLen + MaxShift + Pad,
                           GlyphW * MaxStrLen + MaxShift, GlyphH + MaxShift, format)
    /\ \E n \in 1 .. NumGlyphs : font = FontTable(n)
    /\ bufD = InitMem(fb)
    /\ bufW = InitMem(fb)
    /\ preD = bufD
    /\ preW = bufW
    /\ op = NoOp
    /\ calls = <<>>
    /\ nOps = 0
    /\ ascii = <<>>
    /\ reads = {}
    /\ aborted = FALSE
    /\ GlobalIdle

\* One rendering call per behaviour, drawn on bufD.
Render(o, st) ==
    /\ op = NoOp
    /\ op' = o
    /\ nOps' = nOps + 1
    /\ preD' = bufD
    /\ bufD' = st.mem
    /\ calls' = st.calls
    /\ ascii' = st.ascii
    /\ reads' = st.reads
    /\ aborted' = st.aborted
    /\ UNCHANGED <<fb, font, bufW, preW>>
    /\ UNCHANGED globalVars

Writers == {AsWriter(fb), WriterOf(fb)}

WriteAscii ==
    \E writer \in Writers, x \in {0, MaxShift}, y \in {0, MaxShift},
       c \in CodePoints, fg \in Colors, bg \in Colors :
        /\ InResolution(x + GlyphW - 1, y + GlyphH - 1)
        /\ Render([name |-> "write_ascii", writer |-> writer.kind, x |-> x, y |-> y,
                   c |-> c, fg |-> fg, bg |-> bg],
                  write_ascii(font, writer, Start(bufD), x, y, c, fg, bg))

WriteString ==
    \E writer \in Writers, x \in {0, MaxShift}, y \in {0, MaxShift},
       cs \in Strings, fg \in Colors, bg \in Colors :
        /\ fg # bg
        /\ InResolution(x + GlyphW * MaxStrLen - 1, y + GlyphH - 1)
        /\ Render([name |-> "Font::write_string", writer |-> writer.kind,
                   x |-> x, y |-> y, chars |-> cs, s |-> Utf8Str(cs),
                   fg |-> fg, bg |-> bg],
                  Font_write_string(font, writer, Start(bufD), x, y,
                                    Utf8Str(cs), fg, bg))

ShinonomeWriteString ==
    \E x \in {0, MaxShift}, y \in {0, MaxShift}, cs \in Strings,
       fg \in Colors, bg \in Colors :
        /\ fg # bg
        /\ InResolution(x + GlyphW * MaxStrLen - 1, y + GlyphH - 1)
        /\ Render([name |-> "ShinonomeFont::write_string", writer |-> "FrameBuffer",
                   x |-> x, y |-> y, chars |-> cs, s |-> Utf8Str(cs),
                   fg |-> fg, bg |-> bg],
                  ShinonomeFont_write_string(font, AsWriter(fb), Start(bufD), x, y,
                                             Utf8Str(cs), fg, bg))

FontNext == WriteAscii \/ WriteString \/ ShinonomeWriteString

FontSpec == FontInit /\ [][FontNext]_vars

----------------------------------------------------------------------------
(* The global writer: init_global_writer called from several execution       *)
(* contexts, and readers of the handle.                                      *)

FrameBuffer_uninitialized_default == FrameBuffer(0, 0, 0, 0, RGB)

\* The descriptors the boot code may hand over.
Descs ==
    {FrameBuffer(a, Width + Pad, Width, Height, format) :
        a \in 1 .. NumAddrs, format \in PixelFormat}

\* As StaticOf, with the arms' statics exchanged.
StaticOf_swapped(d) == IF d.pixel_format = RGB THEN "BGR_WRITER" ELSE "RGB_WRITER"

\* The static the match arm of a descriptor's format writes and refers to.
StaticOf(d) == IF d.pixel_format = RGB THEN "RGB_WRITER" ELSE "BGR_WRITER"

\* SpinMutex::lock returns once nobody holds the lock; until then it spins.
SpinMutex_free == lock = {}

\* What a reference held in the handle points at.
Deref(h, rgb, bgr) ==
    CASE h = "RGB_WRITER" -> rgb
      [] h = "BGR_WRITER" -> bgr
      [] OTHER -> StorageUninit

GlobalInit ==
    /\ fb = FrameBuffer_uninitialized_default
    /\ bufD = <<>>
    /\ bufW = <<>>
    /\ preD = <<>>
    /\ preW = <<>>
    /\ op = NoOp
    /\ calls = <<>>
    /\ nOps = 0
    /\ FontIdle
    /\ GlobalIdle

\* A context enters init_global_writer(frame_buffer).
Call(p) ==
    /\ pc[p] = "idle"
    /\ nCalls < MaxCalls
    /\ \E d \in Descs : arg' = [arg EXCEPT ![p] = d]
    /\ pc' = [pc EXCEPT ![p] = "lock"]
    /\ nCalls' = nCalls + 1
    /\ UNCHANGED <<WRITER, RGB_WRITER, BGR_WRITER, lock, obs, returned, last>>
    /\ UNCHANGED <<drawVars, fontVars>>

\* As Lock, without waiting for the lock.
Lock_unguarded(p) ==
    /\ pc[p] = "lock"
    /\ lock' = {p}
    /\ pc' = [pc EXCEPT ![p] = "construct"]
    /\ UNCHANGED <<WRITER, RGB_WRITER, BGR_WRITER, arg, obs, returned, last, nCalls>>
    /\ UNCHANGED <<drawVars, fontVars>>

\* WRITER.lock(): the receiver of .write(..) is evaluated first.
Lock(p) ==
    /\ pc[p] = "lock"
    /\ SpinMutex_free
    /\ lock' = {p}
    /\ pc' = [pc EXCEPT ![p] = "construct"]
    /\ UNCHANGED <<WRITER, RGB_WRITER, BGR_WRITER, arg, obs, returned, last, nCalls>>
    /\ UNCHANGED <<drawVars, fontVars>>

\* The match arm: the writer is built in the static of the descriptor's format.
Construct(p) ==
    /\ pc[p] = "construct"
    /\ IF StaticOf(arg[p]) = "RGB_WRITER"
       THEN /\ RGB_WRITER' = WriterOf(arg[p])
            /\ UNCHANGED BGR_WRITER
       ELSE /\ BGR_WRITER' = WriterOf(arg[p])
            /\ UNCHANGED RGB_WRITER
    /\ pc' = [pc EXCEPT ![p] = "store"]
    /\ UNCHANGED <<WRITER, lock, arg, obs, returned, last, nCalls>>
    /\ UNCHANGED <<drawVars, fontVars>>

\* MaybeUninit::write of the reference the arm evaluated to.
Store(p) ==
    /\ pc[p] = "store"
    /\ WRITER' = StaticOf(arg[p])
    /\ pc' = [pc EXCEPT ![p] = "unlock"]
    /\ UNCHANGED <<RGB_WRITER, BGR_WRITER, lock, arg, obs, returned, last, nCalls>>
    /\ UNCHANGED <<drawVars, fontVars>>

\* The guard is dropped at the end of the statement and the call returns.
Return(p) ==
    /\ pc[p] = "unlock"
    /\ lock' = {}
    /\ pc' = [pc EXCEPT ![p] = "idle"]
    /\ returned' = returned \cup {arg[p]}
    /\ last' = arg[p]
    /\ UNCHANGED <<WRITER, RGB_WRITER, BGR_WRITER, arg, obs, nCalls>>
    /\ UNCHANGED <<drawVars, fontVars>>

\* A reader begins a read of the handle: it notes which calls have returned.
ReadBegin(r) ==
    /\ pc[r] = "idle"
    /\ obs' = [obs EXCEPT ![r] = [began |-> returned, done |-> FALSE]]
    /\ pc' = [pc EXCEPT ![r] = "lock"]
    /\ UNCHANGED <<WRITER, RGB_WRITER, BGR_WRITER, lock, arg, returned, last, nCalls>>
    /\ UNCHANGED <<drawVars, fontVars>>

ReadLock(r) ==
    /\ pc[r] = "lock"
    /\ SpinMutex_free
    /\ lock' = {r}
    /\ pc' = [pc EXCEPT ![r] = "read"]
    /\ UNCHANGED <<WRITER, RGB_WRITER, BGR_WRITER, arg, obs, returned, last, nCalls>>
    /\ UNCHANGED <<drawVars, fontVars>>

\* The reader takes the reference out of the cell and looks behind it.
Read(r) ==
    /\ pc[r] = "read"
    /\ obs' = [obs EXCEPT ![r] =
                  [began |-> obs[r].began, done |-> TRUE, handle |-> WRITER,
                   writer |-> Deref(WRITER, RGB_WRITER, BGR_WRITER),
                   last |-> last]]
    /\ pc' = [pc EXCEPT ![r] = "unlock"]
    /\ UNCHANGED <<WRITER, RGB_WRITER, BGR_WRITER, lock, arg, returned, last, nCalls>>
    /\ UNCHANGED <<drawVars, fontVars>>

ReadUnlock(r) ==
    /\ pc[r] = "unlock"
    /\ lock' = {}
    /\ pc' = [pc EXCEPT ![r] = "idle"]
    /\ UNCHANGED <<WRITER, RGB_WRITER, BGR_WRITER, arg, obs, returned, last, nCalls>>
    /\ UNCHANGED <<drawVars, fontVars>>

GlobalNext ==
    \/ \E p \in Callers : Call(p)
    \/ \E p \in Callers : Lock(p)
    \/ \E p \in Callers : Construct(p)
    \/ \E p \in Callers : Store(p)
    \/ \E p \in Callers : Return(p)
    \/ \E r \in Readers : ReadBegin(r)
    \/ \E r \in Readers : ReadLock(r)
    \/ \E r \in Readers : Read(r)
    \/ \E r \in Readers : ReadUnlock(r)

GlobalSpec == GlobalInit /\ [][GlobalNext]_vars

----------------------------------------------------------------------------
(* Properties of the drawing primitives, checked under Spec. *)

\* The bytes a pixel of the given colour holds in a buffer of the given format.
ChannelBytes(format, color) ==
    IF format = RGB THEN <<color.red, color.green, color.blue>>
    ELSE <<color.blue, color.green, color.red>>

\* post is pre with the first three bytes at offset off set to want.
ThreeBytesAt(pre, post, off, want) ==
    /\ DOMAIN post = DOMAIN pre
    /\ \A a \in DOMAIN pre :
          post[a] = IF a \in off .. off + 2 THEN want[a - off + 1] ELSE pre[a]

\* C1: draw_pixel(x, y, color) within the resolution, through the FrameBuffer
\* itself and through the writer of its format, sets the three bytes at
\* 4*(stride*y+x) to red, green, blue (RGB) or blue, green, red (BGR) and
\* leaves the fourth byte of the pixel and every other byte as they were.
C1_DrawPixelWritesThreeBytes ==
    op.name = "draw_pixel" =>
        LET off == 4 * (fb.pixel_per_scan_line * op.y + op.x)
            want == ChannelBytes(fb.pixel_format, op.color)
        IN  /\ ThreeBytesAt(preD, bufD, off, want)
            /\ ThreeBytesAt(preW, bufW, off, want)

C1_Witness ==
    /\ op.name = "draw_pixel"
    /\ op.x = 1
    /\ op.y = 1
    /\ op.color = PixelColor_new(1, 2, 3)
    /\ fb.pixel_format = BGR
    /\ bufD # preD
    /\ bufW # preW

CallsAt(x, y) ==
    Cardinality({i \in 1 .. Len(calls) : calls[i].x = x /\ calls[i].y = y})

\* C3: fill_rect(pos, size, color) issues draw_pixel exactly once, with color,
\* for every pixel (pos.x+dx, pos.y+dy), 0 <= dx < size.x, 0 <= dy < size.y, and
\* for no other pixel; with size.x = 0 or size.y = 0 nothing is written.
C3_FillRectCoversOnce ==
    op.name = "fill_rect" =>
        /\ \A i \in 1 .. Len(calls) :
              /\ calls[i].color = op.color
              /\ calls[i].x \in op.pos.x .. (op.pos.x + op.size.x - 1)
              /\ calls[i].y \in op.pos.y .. (op.pos.y + op.size.y - 1)
        /\ \A x \in op.pos.x .. (op.pos.x + op.size.x - 1),
              y \in op.pos.y .. (op.pos.y + op.size.y - 1) : CallsAt(x, y) = 1
        /\ Len(calls) = op.size.x * op.size.y
        /\ (op.size.x = 0 \/ op.size.y = 0) => (calls = <<>> /\ bufD = preD)

C3_Witness ==
    /\ op.name = "fill_rect"
    /\ op.pos = Vector2D_new(1, 0)
    /\ op.size = Vector2D_new(2, 2)
    /\ Len(calls) = 4
    /\ bufD # preD

\* Pixel (x, y) lies on the outline with inclusive corners pos and pos+size.
OnBorder(pos, size, x, y) ==
    /\ x \in pos.x .. (pos.x + size.x)
    /\ y \in pos.y .. (pos.y + size.y)
    /\ \/ x = pos.x
       \/ x = pos.x + size.x
       \/ y = pos.y
       \/ y = pos.y + size.y

\* C4: draw_rect(pos, size, color) writes, with color, every pixel of the four
\* border lines of the rectangle with inclusive corners pos and pos+size, the
\* far corner pos+size included, and no pixel off that border.
C4_DrawRectFullBorder ==
    op.name = "draw_rect" =>
        /\ \A i \in 1 .. Len(calls) :
              /\ calls[i].color = op.color
              /\ OnBorder(op.pos, op.size, calls[i].x, calls[i].y)
        /\ \A x \in 0 .. Width - 1, y \in 0 .. Height - 1 :
              OnBorder(op.pos, op.size, x, y) => CallsAt(x, y) >= 1

----------------------------------------------------------------------------
(* Properties of the font renderer, checked under FontSpec. *)

\* Bit k of byte b (bit 7 is the leftmost pixel of a row).
BitSet(b, k) == (b \div (2 ^ k)) % 2 = 1

\* Whether the glyph of code point c has pixel (dx, dy) set in the table.
Lit(c, dx, dy) == BitSet(font[16 * c + dy + 1], 7 - dx)

\* C7: for a code point c with 16*c >= the table's length, write_ascii issues
\* no draw_pixel call, reads no byte of the table, leaves the buffer as it was
\* and returns without an error.
C7_OutOfRangeIsNoOp ==
    (op.name = "write_ascii" /\ 16 * op.c >= Len(font)) =>
        /\ calls = <<>>
        /\ reads = {}
        /\ bufD = preD
        /\ ~aborted

C7_Witness ==
    /\ op.name = "write_ascii"
    /\ 16 * op.c = Len(font)
    /\ op.fg # op.bg
    /\ bufD = preD

\* C8: for a code point c with 16*c < the table's length, write_ascii draws
\* pixel (x+dx, y+dy), dx in 0..7, dy in 0..15, exactly when bit 7-dx of table
\* byte 16*c+dy is set, always with fg; it draws nothing with bg and nothing
\* outside the 8x16 cell, and the buffer it leaves does not depend on bg.
C8_GlyphBitsDrawnInFg ==
    (op.name = "write_ascii" /\ 16 * op.c < Len(font)) =>
        /\ \A i \in 1 .. Len(calls) :
              /\ calls[i].color = op.fg
              /\ calls[i].x \in op.x .. (op.x + 7)
              /\ calls[i].y \in op.y .. (op.y + 15)
        /\ \A dx \in 0 .. 7, dy \in 0 .. 15 :
              CallsAt(op.x + dx, op.y + dy) = IF Lit(op.c, dx, dy) THEN 1 ELSE 0
        /\ DOMAIN bufD = DOMAIN preD
        /\ \A a \in DOMAIN preD :
              LET px == (a \div 4) % fb.pixel_per_scan_line
                  py == (a \div 4) \div fb.pixel_per_scan_line
                  lit == /\ a % 4 < 3
                         /\ px \in op.x .. (op.x + 7)
                         /\ py \in op.y .. (op.y + 15)
                         /\ Lit(op.c, px - op.x, py - op.y)
              IN  bufD[a] = IF lit
                            THEN ChannelBytes(fb.pixel_format, op.fg)[(a % 4) + 1]
                            ELSE preD[a]

C8_Witness ==
    /\ op.name = "write_ascii"
    /\ op.c = 1
    /\ Len(font) > 16
    /\ op.x = MaxShift
    /\ op.y = MaxShift
    /\ op.fg # op.bg
    /\ \E dx \in 0 .. 7, dy \in 0 .. 15 : Lit(op.c, dx, dy)
    /\ \E dx \in 0 .. 7, dy \in 0 .. 15 : ~Lit(op.c, dx, dy)
    /\ bufD # preD

\* C9: write_string, the trait's default and ShinonomeFont's own, calls
\* write_ascii once per character of s, left to right, the i-th character (from
\* 0, in characters, not bytes) at (x + 8*i, y); a character write_ascii skips
\* takes its 8 pixels all the same.
C9_StringAdvancesEightPerChar ==
    op.name \in {"Font::write_string", "ShinonomeFont::write_string"} =>
        /\ Len(ascii) = Len(op.chars)
        /\ \A i \in 1 .. Len(op.chars) :
              ascii[i] = [x |-> op.x + 8 * (i - 1), y |-> op.y, c |-> op.chars[i]]

C9_Witness ==
    /\ op.name = "ShinonomeFont::write_string"
    /\ op.chars = <<233, 1>>
    /\ Len(font) > 16
    /\ op.x = MaxShift
    /\ calls # <<>>
    /\ \A i \in 1 .. Len(calls) : calls[i].x >= op.x + 8

\* C10: with a table whose length is a multiple of 16, every table index
\* write_ascii reads for a code point c is one of 16*c .. 16*c+15, computed
\* without wrapping, and lies below the table's length; the call never stops
\* on an index out of range.
C10_ReadsStayInTable ==
    (op.name = "write_ascii" /\ Len(font) % 16 = 0) =>
        /\ ~aborted
        /\ \A i \in reads :
              /\ i < Len(font)
              /\ i \in (16 * op.c) .. (16 * op.c + 15)
        /\ 16 * op.c < Len(font) => reads = (16 * op.c) .. (16 * op.c + 15)

C10_Witness ==
    /\ op.name = "write_ascii"
    /\ Len(font) = 16 * NumGlyphs
    /\ op.c = NumGlyphs - 1
    /\ (Len(font) - 1) \in reads
    /\ ~aborted

----------------------------------------------------------------------------
(* Properties of the global writer, checked under GlobalSpec. *)

\* The fully constructed writer of descriptor d: of d's format, wrapping d.
WriterWrapping(d) ==
    [kind |-> IF d.pixel_format = RGB THEN "RGBWriter" ELSE "BGRWriter",
     frame_buffer |-> d]

\* The reference a handle initialized from descriptor d holds.
RefFor(d) == IF d.pixel_format = RGB THEN "RGB_WRITER" ELSE "BGR_WRITER"

\* The contexts inside init_global_writer's locked region.
InCritical == {p \in Callers : pc[p] \in {"construct", "store", "unlock"}}

\* C5 as stated: one call wins; once the handle is initialized no call
\* changes the writer storage or the handle.
C5_OnlyWinnerConstructs ==
    [][WRITER # HandleUninit =>
          UNCHANGED <<WRITER, RGB_WRITER, BGR_WRITER>>]_vars

\* C5, amended: init_global_writer calls exclude one another under the lock
\* and every one of them, not only the first, builds the writer of its own
\* descriptor in the static of that format and sets the handle to it; the
\* handle leaves Uninitialized with the first call and never returns to it.
C5_EveryCallConstructsUnderLock ==
    [][/\ Cardinality(InCritical) <= 1
       /\ (WRITER # HandleUninit => WRITER' # HandleUninit)
       /\ (<<WRITER, RGB_WRITER, BGR_WRITER>>' # <<WRITER, RGB_WRITER, BGR_WRITER>>
              => \E p \in Callers : lock = {p} /\ lock' = {p} /\ pc'[p] # pc[p])
       /\ \A p \in Callers :
             (pc[p] = "store" /\ pc'[p] = "unlock") =>
                 /\ WRITER' = RefFor(arg[p])
                 /\ Deref(WRITER', RGB_WRITER', BGR_WRITER') = WriterWrapping(arg[p])
      ]_vars

C5_Witness ==
    /\ Cardinality(returned) = 1
    /\ \E p \in Callers :
          /\ pc[p] = "unlock"
          /\ arg[p] # last
          /\ arg[p].pixel_format = last.pixel_format
          /\ WRITER = RefFor(arg[p])
          /\ Deref(WRITER, RGB_WRITER, BGR_WRITER) = WriterWrapping(arg[p])

\* C6 as stated: once init_global_writer(d) has returned, the handle refers
\* to the writer of d's format wrapping d, and every read that begins after
\* that return sees it.
C6_ReadsSeeCallersWriter ==
    \A r \in Readers :
        obs[r].done =>
            \A d \in obs[r].began :
                /\ obs[r].handle = RefFor(d)
                /\ obs[r].writer = WriterWrapping(d)

\* C6, amended: once an init_global_writer call has returned, the handle
\* refers to the fully constructed writer of the call that returned last (of
\* its descriptor's format and wrapping it), and every read that begins after
\* a return sees the writer of the call that returned last before the read,
\* never the uninitialized cell or a static not yet written.
C6_ReadsSeeLastReturnedWriter ==
    /\ (lock = {} /\ last # NoDesc) =>
          /\ WRITER = RefFor(last)
          /\ Deref(WRITER, RGB_WRITER, BGR_WRITER) = WriterWrapping(last)
    /\ \A r \in Readers :
          (obs[r].done /\ obs[r].began # {}) =>
              /\ obs[r].handle # HandleUninit
              /\ obs[r].writer # StorageUninit
              /\ obs[r].handle = RefFor(obs[r].last)
              /\ obs[r].writer = WriterWrapping(obs[r].last)

C6_Witness ==
    \E r \in Readers :
        /\ obs[r].done
        /\ Cardinality(obs[r].began) = 1
        /\ Cardinality(returned) = 2
        /\ obs[r].last \notin obs[r].began
        /\ obs[r].writer = WriterWrapping(obs[r].last)

====
